---------------------------- MODULE Spec2Model ----------------------------
(* A model of the labor-data-taiwan scripts: the ZIP/CSV extractor and the     *)
(* download loop of fetch_labor_violations.py, the download of                 *)
(* fetch_osha_violations.py, the two JSON fetchers up to their processed CSV,  *)
(* the cleaners' deduplication, the year-bucket export and the comparator.     *)
(*                                                                             *)
(* The scripts are independent programs; every script (or the part of it a     *)
(* property is about) has its own specification over its own variables, the    *)
(* variables of the other scripts resting at an idle value meanwhile.          *)
(* Text is modelled as a sequence of one-character strings.                    *)
EXTENDS Integers, Sequences, FiniteSets, TLC

VARIABLES
    \* extract_csvs_from_zip, the text preprocessing of one decoded entry
    lines, i, line, quote_count, fixed_lines, fixed_text, rpc,
    \* extract_csvs_from_zip, the archive's entries and their encodings
    namelist, entry, enc, tried, dfs, corrupt, xpc,
    \* fetch_mol_webservices: fetch_all_data and main's loop over the resources
    resource, schema, server, offset, all_data, requests, merged, raw_mol, mol_csv, mpc,
    \* fetch_occupational_disasters: main's loop over the date windows
    window, d_data, d_all_data, d_requests, raw, dis_csv, d_exc, dpc,
    \* fetch_labor_violations: the token request and main's loop over the cities
    csrf_token, city, zips, all_dfs, l_requests, labor_csv, l_exc, lpc,
    \* fetch_osha_violations: the download and the merged CSV
    o_df, o_requests, osha_csv, o_exc, opc,
    \* the cleaners of the two fetchers: deduplication of the merged table
    cleaner, rows0, df, original_count, duplicates_removed, reported, cpc,
    \* the year-bucket export of fetch_labor_violations and fetch_osha_violations
    script, df_all, year_col, year_files, unknown_file, epc,
    \* compare_sources: normalize_year and normalize_date on one value
    year_val, year_result, ypc,
    date_val, once, twice, npc,
    \* compare_sources: compare_counts and find_unique_records on two tables
    pacs_df, mol_df, pacs_counts, mol_counts, common_keys, pacs_only, mol_only, kpc

repairVars == <<lines, i, line, quote_count, fixed_lines, fixed_text, rpc>>
extractVars == <<namelist, entry, enc, tried, dfs, corrupt, xpc>>

molVars ==
    <<resource, schema, server, offset, all_data, requests, merged, raw_mol, mol_csv, mpc>>
disVars == <<window, d_data, d_all_data, d_requests, raw, dis_csv, d_exc, dpc>>
laborVars == <<csrf_token, city, zips, all_dfs, l_requests, labor_csv, l_exc, lpc>>
oshaVars == <<o_df, o_requests, osha_csv, o_exc, opc>>

cleanVars == <<cleaner, rows0, df, original_count, duplicates_removed, reported, cpc>>

exportVars == <<script, df_all, year_col, year_files, unknown_file, epc>>

yearVars == <<year_val, year_result, ypc>>
dateVars == <<date_val, once, twice, npc>>
compareVars ==
    <<pacs_df, mol_df, pacs_counts, mol_counts, common_keys, pacs_only, mol_only, kpc>>
normVars == <<yearVars, dateVars, compareVars>>

vars ==
    <<repairVars, extractVars, molVars, disVars, laborVars, oshaVars, cleanVars,
      exportVars, normVars>>

\* What each script leaves alone: the variables of the others.
httpVars == <<laborVars, oshaVars>>
notRepair == <<extractVars, molVars, disVars, httpVars, cleanVars, exportVars, normVars>>
notExtract == <<repairVars, molVars, disVars, httpVars, cleanVars, exportVars, normVars>>
notMol == <<repairVars, extractVars, disVars, httpVars, cleanVars, exportVars, normVars>>
notDis == <<repairVars, extractVars, molVars, httpVars, cleanVars, exportVars, normVars>>
notLabor ==
    <<repairVars, extractVars, molVars, disVars, oshaVars, cleanVars, exportVars, normVars>>
notOsha ==
    <<repairVars, extractVars, molVars, disVars, laborVars, cleanVars, exportVars, normVars>>
notClean == <<repairVars, extractVars, molVars, disVars, httpVars, exportVars, normVars>>
notExport == <<repairVars, extractVars, molVars, disVars, httpVars, cleanVars, normVars>>
notScripts ==
    <<repairVars, extractVars, molVars, disVars, httpVars, cleanVars, exportVars>>
notYear == <<notScripts, dateVars, compareVars>>
notDate == <<notScripts, yearVars, compareVars>>
notCompare == <<notScripts, yearVars, dateVars>>

-----------------------------------------------------------------------------
(* Text helpers: Python's str methods on sequences of characters.             *)

\* The characters str.strip() removes (the ones the model's texts hold).
Whitespace == {" ", "\r", "\t"}

\* s.count(c)
RECURSIVE Count(_, _)
Count(s, c) ==
    IF s = <<>> THEN 0
    ELSE (IF Head(s) = c THEN 1 ELSE 0) + Count(Tail(s), c)

\* s.replace(c, "")
RECURSIVE Remove(_, _)
Remove(s, c) ==
    IF s = <<>> THEN <<>>
    ELSE (IF Head(s) = c THEN <<>> ELSE <<Head(s)>>) \o Remove(Tail(s), c)

\* s.lstrip()
RECURSIVE LStrip(_)
LStrip(s) ==
    IF s # <<>> /\ Head(s) \in Whitespace THEN LStrip(Tail(s)) ELSE s

\* s.rstrip()
RECURSIVE RStrip(_)
RStrip(s) ==
    IF s # <<>> /\ s[Len(s)] \in Whitespace
    THEN RStrip(SubSeq(s, 1, Len(s) - 1)) ELSE s

\* s.strip()
Strip(s) == RStrip(LStrip(s))

\* s.rstrip(c)
RECURSIVE RStripChar(_, _)
RStripChar(s, c) ==
    IF s # <<>> /\ s[Len(s)] = c
    THEN RStripChar(SubSeq(s, 1, Len(s) - 1), c) ELSE s

\* sep.join(ss)
RECURSIVE Join(_, _)
Join(ss, sep) ==
    IF ss = <<>> THEN <<>>
    ELSE IF Len(ss) = 1 THEN ss[1]
    ELSE ss[1] \o sep \o Join(Tail(ss), sep)

\* All sequences over S of length lo..hi.
SeqsOf(S, lo, hi) == UNION {[1..n -> S] : n \in lo..hi}

-----------------------------------------------------------------------------
(* Values of a table cell, and Python's conversions between them.             *)

\* A cell is NaN/None, an integer, a float with no fraction, or a string.
NaN == [t |-> "nan"]
IntVal(n) == [t |-> "int", v |-> n]
FloatVal(n) == [t |-> "float", v |-> n]
StrVal(s) == [t |-> "str", s |-> s]

\* pd.isna
IsNa(x) == x.t = "nan"

\* What a function returns: None, an integer, or the exception it raised.
None == [t |-> "none"]
Raise(e) == [t |-> "raise", exc |-> e]

DigitChars == <<"0", "1", "2", "3", "4", "5", "6", "7", "8", "9">>
Digits == {DigitChars[k] : k \in 1..10}
DigitValue(c) == CHOOSE d \in 0..9 : DigitChars[d + 1] = c

\* str(n) of an integer
RECURSIVE NatToStr(_)
NatToStr(n) ==
    IF n < 10 THEN <<DigitChars[n + 1]>>
    ELSE NatToStr(n \div 10) \o <<DigitChars[(n % 10) + 1]>>

IntToStr(n) == IF n < 0 THEN <<"-">> \o NatToStr(0 - n) ELSE NatToStr(n)

\* str(x) of a cell that is not NaN
ToStr(x) ==
    CASE x.t = "int" -> IntToStr(x.v)
      [] x.t = "float" -> IntToStr(x.v) \o <<".", "0">>
      [] x.t = "str" -> x.s

\* The number a string of digits writes.
RECURSIVE DigitsToNat(_, _)
DigitsToNat(s, acc) ==
    IF s = <<>> THEN acc
    ELSE DigitsToNat(Tail(s), 10 * acc + DigitValue(Head(s)))

AllDigits(s) == \A k \in 1..Len(s) : s[k] \in Digits

\* int(s) of a string: blanks around, a sign, digits; ValueError otherwise
ParseInt(s) ==
    LET t == Strip(s)
        signed == t # <<>> /\ Head(t) \in {"+", "-"}
        body == IF signed THEN Tail(t) ELSE t
    IN  IF body # <<>> /\ AllDigits(body)
        THEN IntVal(IF signed /\ Head(t) = "-"
                    THEN 0 - DigitsToNat(body, 0) ELSE DigitsToNat(body, 0))
        ELSE Raise("ValueError")

\* s.split(c)[0]
RECURSIVE FirstPart(_, _)
FirstPart(s, c) ==
    IF s = <<>> \/ Head(s) = c THEN <<>>
    ELSE <<Head(s)>> \o FirstPart(Tail(s), c)

\* s.replace(a, b), single characters
Replace(s, a, b) == [k \in 1..Len(s) |-> IF s[k] = a THEN b ELSE s[k]]

\* s[:n]
Prefix(s, n) == SubSeq(s, 1, IF Len(s) < n THEN Len(s) ELSE n)

-----------------------------------------------------------------------------
(* extract_csvs_from_zip: title line, quote-balance repair, trailing commas.  *)

\* Most physical lines of a decoded entry.
MaxLines == 3

QUOTE == "\""

\* The title line the site puts before the header; "T" stands for its text.
TITLE == <<"T">>

\* The physical lines the decoded texts are made of (text.split("\n") leaves
\* no line break in any of them).
PhysicalLines ==
    { <<"a", ",", QUOTE, "b">>,          \* a,"b     a quoted field left open
      <<"c", QUOTE, ",", "d">>,          \* c",d     its other half
      <<"e", ",", "f", ",">>,            \* e,f,     a stray trailing comma
      <<QUOTE, "g", QUOTE>>,             \* "g"      balanced quotes
      <<QUOTE, "T", QUOTE, "\r">>,       \* the title line, quoted, CRLF file
      <<>> }                             \* an empty line

\* line 131: lines[0].strip().replace('"', "") == title
IsTitleLine(l) == Remove(Strip(l), QUOTE) = TITLE

\* line 144: line = line + lines[i]
JoinKeepingBreak(l, nxt) == l \o <<"\n">> \o nxt
JoinLines(l, nxt) == l \o nxt

\* line 142: the inner loop's condition
NeedsMore(qc, idx, ls) == qc % 2 # 0 /\ idx + 1 < Len(ls)

RepairIdle ==
    /\ lines = <<>>
    /\ i = 0
    /\ line = <<>>
    /\ quote_count = 0
    /\ fixed_lines = <<>>
    /\ fixed_text = <<>>
    /\ rpc = "idle"

RepairInit ==
    /\ lines \in SeqsOf(PhysicalLines, 1, MaxLines)
    /\ i = 0
    /\ line = <<>>
    /\ quote_count = 0
    /\ fixed_lines = <<>>
    /\ fixed_text = <<>>
    /\ rpc = "title"

\* lines 131-137
SkipTitle ==
    /\ rpc = "title"
    /\ lines' = IF IsTitleLine(lines[1]) THEN Tail(lines) ELSE lines
    /\ fixed_lines' = <<>>
    /\ i' = 0
    /\ rpc' = "outer"
    /\ UNCHANGED <<line, quote_count, fixed_text>>
    /\ UNCHANGED notRepair

\* lines 138-141: the outer loop takes the next physical line
TakeLine ==
    /\ rpc = "outer"
    /\ i < Len(lines)
    /\ line' = lines[i + 1]
    /\ quote_count' = Count(lines[i + 1], QUOTE)
    /\ rpc' = "inner"
    /\ UNCHANGED <<lines, i, fixed_lines, fixed_text>>
    /\ UNCHANGED notRepair

\* lines 142-145: one turn of the inner loop
JoinNext ==
    /\ rpc = "inner"
    /\ NeedsMore(quote_count, i, lines)
    /\ i' = i + 1
    /\ line' = JoinLines(line, lines[i + 2])
    /\ quote_count' = Count(JoinLines(line, lines[i + 2]), QUOTE)
    /\ UNCHANGED <<lines, fixed_lines, fixed_text, rpc>>
    /\ UNCHANGED notRepair

\* lines 146-147
AppendLine ==
    /\ rpc = "inner"
    /\ ~NeedsMore(quote_count, i, lines)
    /\ fixed_lines' = Append(fixed_lines, line)
    /\ i' = i + 1
    /\ rpc' = "outer"
    /\ UNCHANGED <<lines, line, quote_count, fixed_text>>
    /\ UNCHANGED notRepair

\* line 138, the loop's exit: the repair is done
EndRepair ==
    /\ rpc = "outer"
    /\ i >= Len(lines)
    /\ rpc' = "repaired"
    /\ UNCHANGED <<lines, i, line, quote_count, fixed_lines, fixed_text>>
    /\ UNCHANGED notRepair

\* lines 150-154
StripTrailingCommas ==
    /\ rpc = "repaired"
    /\ fixed_lines' = [k \in 1..Len(fixed_lines) |-> RStripChar(fixed_lines[k], ",")]
    /\ fixed_text' =
         Join([k \in 1..Len(fixed_lines) |-> RStripChar(fixed_lines[k], ",")], <<"\n">>)
    /\ rpc' = "joined"
    /\ UNCHANGED <<lines, i, line, quote_count>>
    /\ UNCHANGED notRepair

RepairNext ==
    \/ SkipTitle
    \/ TakeLine
    \/ JoinNext
    \/ AppendLine
    \/ EndRepair
    \/ StripTrailingCommas

-----------------------------------------------------------------------------
(* extract_csvs_from_zip: the archive, its entries, the candidate encodings.  *)

\* Most entries of an archive.
MaxEntries == 2

\* line 124
ENCODINGS == <<"utf-8-sig", "utf-8", "big5", "cp950">>

\* What decoding, repairing and parsing one entry under one encoding ends in:
\* an exception, or the table pd.read_csv returns (its rows and columns).
Tables == [kind : {"table"}, rows : 0..2, cols : 1..2]
Raised == [kind : {"UnicodeDecodeError", "ParserError", "EmptyDataError"}]
Outcomes == Tables \cup Raised

\* line 181: the exceptions an attempt is allowed to end in
Caught == {"UnicodeDecodeError", "ParserError"}

\* line 162: len(df) > 0 and len(df.columns) > 1
AcceptedAnyRows(t) == t.rows > 0
Accepted(t) == t.rows > 0 /\ t.cols > 1

ExtractIdle ==
    /\ namelist = <<>>
    /\ entry = 0
    /\ enc = 0
    /\ tried = <<>>
    /\ dfs = <<>>
    /\ corrupt = FALSE
    /\ xpc = "idle"

\* namelist[k]: whether the k-th entry's name ends with ".csv".
ExtractInit ==
    /\ namelist \in SeqsOf(BOOLEAN, 0, MaxEntries)
    /\ entry = 0
    /\ enc = 0
    /\ tried = <<>>
    /\ dfs = <<>>
    /\ corrupt = FALSE
    /\ xpc = "open"

\* lines 116-117: the archive opens
OpenZip ==
    /\ xpc = "open"
    /\ entry' = 1
    /\ xpc' = "entry"
    /\ UNCHANGED <<namelist, enc, tried, dfs, corrupt>>
    /\ UNCHANGED notExtract

\* lines 117, 183-186: zipfile.ZipFile raises BadZipFile
OpenZipBad ==
    /\ xpc = "open"
    /\ corrupt' = TRUE
    /\ xpc' = "returned"
    /\ UNCHANGED <<namelist, entry, enc, tried, dfs>>
    /\ UNCHANGED notExtract

\* lines 118-119: an entry that is no CSV is passed over
SkipEntry ==
    /\ xpc = "entry"
    /\ entry <= Len(namelist)
    /\ ~namelist[entry]
    /\ entry' = entry + 1
    /\ UNCHANGED <<namelist, enc, tried, dfs, corrupt, xpc>>
    /\ UNCHANGED notExtract

\* lines 120-124: the entry is read, the first encoding is up
ReadEntry ==
    /\ xpc = "entry"
    /\ entry <= Len(namelist)
    /\ namelist[entry]
    /\ enc' = 1
    /\ tried' = <<>>
    /\ xpc' = "try"
    /\ UNCHANGED <<namelist, entry, dfs, corrupt>>
    /\ UNCHANGED notExtract

\* lines 120-121, 183-186: zf.open or f.read raises BadZipFile
ReadEntryBad ==
    /\ xpc = "entry"
    /\ entry <= Len(namelist)
    /\ namelist[entry]
    /\ corrupt' = TRUE
    /\ xpc' = "returned"
    /\ UNCHANGED <<namelist, entry, enc, tried, dfs>>
    /\ UNCHANGED notExtract

\* lines 125-127, 156, 181-182: the attempt raises a caught exception
AttemptFails ==
    /\ xpc = "try"
    /\ \E o \in Raised :
         /\ o.kind \in Caught
         /\ tried' = Append(tried, [encoding |-> ENCODINGS[enc], outcome |-> o])
    /\ IF enc < Len(ENCODINGS)
       THEN /\ enc' = enc + 1
            /\ UNCHANGED <<entry, xpc>>
       ELSE /\ entry' = entry + 1
            /\ xpc' = "entry"
            /\ UNCHANGED enc
    /\ UNCHANGED <<namelist, dfs, corrupt>>
    /\ UNCHANGED notExtract

\* lines 156-180: the attempt gives a table; it is kept if accepted, and the
\* encodings' loop is left either way
AttemptParses ==
    /\ xpc = "try"
    /\ \E t \in Tables :
         /\ tried' = Append(tried, [encoding |-> ENCODINGS[enc], outcome |-> t])
         /\ dfs' = IF Accepted(t)
                   THEN Append(dfs, [file |-> entry, encoding |-> ENCODINGS[enc],
                                     rows |-> t.rows, cols |-> t.cols])
                   ELSE dfs
    /\ entry' = entry + 1
    /\ xpc' = "entry"
    /\ UNCHANGED <<namelist, enc, corrupt>>
    /\ UNCHANGED notExtract

\* lines 156, 181: pd.read_csv raises an exception line 181 does not name
\* (EmptyDataError, for a text with no columns); it leaves the function
AttemptEscapes ==
    /\ xpc = "try"
    /\ \E o \in Raised :
         /\ o.kind \notin Caught
         /\ tried' = Append(tried, [encoding |-> ENCODINGS[enc], outcome |-> o])
    /\ xpc' = "raised"
    /\ UNCHANGED <<namelist, entry, enc, dfs, corrupt>>
    /\ UNCHANGED notExtract

\* lines 118, 186: no entry is left
ReturnDfs ==
    /\ xpc = "entry"
    /\ entry > Len(namelist)
    /\ xpc' = "returned"
    /\ UNCHANGED <<namelist, entry, enc, tried, dfs, corrupt>>
    /\ UNCHANGED notExtract

ExtractNext ==
    \/ OpenZip
    \/ OpenZipBad
    \/ SkipEntry
    \/ ReadEntry
    \/ ReadEntryBad
    \/ AttemptFails
    \/ AttemptParses
    \/ AttemptEscapes
    \/ ReturnDfs

-----------------------------------------------------------------------------
(* fetch_mol_webservices: fetch_data, fetch_all_data, main's fetch loop.      *)

\* The page size fetch_all_data asks for (1000 in the script, line 78; the
\* model runs the same loop with small pages).
limit == 2

\* The resources of RESOURCE_IDS (7 in the script, lines 27-35).
NumResources == 2

\* Most requests the model lets one fetch_all_data call issue.
MaxRequests == 3

\* Whether the records of a resource come with a year field of their own.
YearFields == {"", "srv"}

\* The servers of a resource: one that answers each request as it likes
\* (errors included), or one that faithfully serves a dataset of n records;
\* the datasets are those fetch_all_data reads within MaxRequests requests.
MaxRecords == limit * MaxRequests - 1
Servers ==
    {[faithful |-> FALSE, n |-> 0]} \cup [faithful : {TRUE}, n : 0..MaxRecords]

\* The number of records a faithful server of n records gives at offset off.
PageSize(n, off) ==
    IF n - off >= limit THEN limit ELSE IF n - off > 0 THEN n - off ELSE 0

\* Whether the server srv may answer the request at off with k records.
MayServe(srv, off, k) == srv.faithful => k = PageSize(srv.n, off)

\* The records of a page of n records asked for at offset off of resource r:
\* resource and pos say where the record came from; year, seq, date and
\* entity are columns of the record (the records of a resource are distinct
\* and dated within the resource's year).
Page(r, off, n, y) ==
    [k \in 1..n |-> [resource |-> r, pos |-> off + k, year |-> y,
                     seq |-> off + k, date |-> r, entity |-> "X"]]

\* line 88: if len(data) < limit
IsShortOrFull(data) == Len(data) <= limit
IsShort(data) == Len(data) < limit

\* line 91: offset += limit
NextOffsetByOne(off) == off + 1
NextOffset(off) == off + limit

\* lines 131-133: the year tag of a record that has none
Tagged(rec, r) == IF rec.year = "" THEN [rec EXCEPT !.year = "tag"] ELSE rec

MolIdle ==
    /\ resource = 0
    /\ schema = ""
    /\ server = [faithful |-> FALSE, n |-> 0]
    /\ offset = 0
    /\ all_data = <<>>
    /\ requests = <<>>
    /\ merged = <<>>
    /\ raw_mol = <<>>
    /\ mol_csv = <<>>
    /\ mpc = "idle"

\* lines 117-123, 76-78: main enters fetch_all_data for the first resource
MolInit ==
    /\ resource = 1
    /\ schema \in YearFields
    /\ server \in Servers
    /\ offset = 0
    /\ all_data = <<>>
    /\ requests = <<>>
    /\ merged = <<>>
    /\ raw_mol = <<>>
    /\ mol_csv = <<>>
    /\ mpc = "fetch"

\* The requests of the fetch_all_data call under way.
Current(reqs, r) == SelectSeq(reqs, LAMBDA q : q.resource = r)

MayRequest == Len(Current(requests, resource)) < MaxRequests

\* A fetch_all_data that skips a failed page and asks for the next offset.
MolFetchFailedSkipsPage ==
    /\ mpc = "fetch"
    /\ MayRequest
    /\ ~server.faithful
    /\ requests' = Append(requests,
           [resource |-> resource, offset |-> offset, failed |-> TRUE, n |-> 0])
    /\ offset' = NextOffset(offset)
    /\ UNCHANGED <<resource, schema, server, all_data, merged, raw_mol, mol_csv, mpc>>
    /\ UNCHANGED notMol

\* lines 81-83, 53-63: the request raises RequestException; fetch_data prints
\* it and returns [], and fetch_all_data breaks
MolFetchFailed ==
    /\ mpc = "fetch"
    /\ MayRequest
    /\ ~server.faithful
    /\ requests' = Append(requests,
           [resource |-> resource, offset |-> offset, failed |-> TRUE, n |-> 0])
    /\ mpc' = "return"
    /\ UNCHANGED <<resource, schema, server, offset, all_data, merged, raw_mol, mol_csv>>
    /\ UNCHANGED notMol

\* lines 81-83, 58-60: the answer holds no record; fetch_all_data breaks
MolFetchEmpty ==
    /\ mpc = "fetch"
    /\ MayRequest
    /\ MayServe(server, offset, 0)
    /\ requests' = Append(requests,
           [resource |-> resource, offset |-> offset, failed |-> FALSE, n |-> 0])
    /\ mpc' = "return"
    /\ UNCHANGED <<resource, schema, server, offset, all_data, merged, raw_mol, mol_csv>>
    /\ UNCHANGED notMol

\* lines 81-89: a page with records, fewer than limit: appended, then break
MolFetchShort ==
    /\ mpc = "fetch"
    /\ MayRequest
    /\ \E n \in 1..limit :
         /\ MayServe(server, offset, n)
         /\ IsShort(Page(resource, offset, n, schema))
         /\ all_data' = all_data \o Page(resource, offset, n, schema)
         /\ requests' = Append(requests,
                [resource |-> resource, offset |-> offset, failed |-> FALSE, n |-> n])
    /\ mpc' = "return"
    /\ UNCHANGED <<resource, schema, server, offset, merged, raw_mol, mol_csv>>
    /\ UNCHANGED notMol

\* lines 81-92: a page of limit records: appended, and the offset moves on
MolFetchFull ==
    /\ mpc = "fetch"
    /\ MayRequest
    /\ \E n \in 1..limit :
         /\ MayServe(server, offset, n)
         /\ ~IsShort(Page(resource, offset, n, schema))
         /\ all_data' = all_data \o Page(resource, offset, n, schema)
         /\ requests' = Append(requests,
                [resource |-> resource, offset |-> offset, failed |-> FALSE, n |-> n])
    /\ offset' = NextOffset(offset)
    /\ UNCHANGED <<resource, schema, server, merged, raw_mol, mol_csv, mpc>>
    /\ UNCHANGED notMol

\* lines 120, 76-78: main goes on to the next resource and enters
\* fetch_all_data for it, or leaves the loop after the last resource
MolNextResource ==
    /\ resource' = resource + 1
    /\ schema' \in (IF resource < NumResources THEN YearFields ELSE {schema})
    /\ server' \in (IF resource < NumResources THEN Servers ELSE {server})
    /\ offset' = 0
    /\ all_data' = <<>>
    /\ mpc' = IF resource < NumResources THEN "fetch" ELSE "fetched"

\* lines 94, 123-128, 136: fetch_all_data returned no record; nothing is
\* saved or merged
MolMainSkip ==
    /\ mpc = "return"
    /\ all_data = <<>>
    /\ MolNextResource
    /\ UNCHANGED <<requests, merged, raw_mol, mol_csv>>
    /\ UNCHANGED notMol

\* A main that merges what fetch_all_data returned without a snapshot.
MolSaveNothing ==
    /\ mpc = "return"
    /\ all_data # <<>>
    /\ mpc' = "saved"
    /\ UNCHANGED <<resource, schema, server, offset, all_data, requests, merged,
                   raw_mol, mol_csv>>
    /\ UNCHANGED notMol

\* lines 94, 123-129: fetch_all_data returned records; main writes them to
\* the snapshot mol_{year}.json
MolSaveRaw ==
    /\ mpc = "return"
    /\ all_data # <<>>
    /\ raw_mol' = raw_mol @@ (resource :> all_data)
    /\ mpc' = "saved"
    /\ UNCHANGED <<resource, schema, server, offset, all_data, requests, merged, mol_csv>>
    /\ UNCHANGED notMol

\* lines 130-136: main tags the records, merges them, and goes on
MolTagAndMerge ==
    /\ mpc = "saved"
    /\ merged' = merged \o [k \in 1..Len(all_data) |-> Tagged(all_data[k], resource)]
    /\ MolNextResource
    /\ UNCHANGED <<requests, raw_mol, mol_csv>>
    /\ UNCHANGED notMol

\* lines 141-143: nothing was fetched, main ends
MolNoData ==
    /\ mpc = "fetched"
    /\ merged = <<>>
    /\ mpc' = "halted"
    /\ UNCHANGED <<resource, schema, server, offset, all_data, requests, merged,
                   raw_mol, mol_csv>>
    /\ UNCHANGED notMol

\* lines 145-146: the merged records become the table
MolToTable ==
    /\ mpc = "fetched"
    /\ merged # <<>>
    /\ mpc' = "table"
    /\ UNCHANGED <<resource, schema, server, offset, all_data, requests, merged,
                   raw_mol, mol_csv>>
    /\ UNCHANGED notMol

-----------------------------------------------------------------------------
(* fetch_occupational_disasters: fetch_data and main's loop over DATE_RANGES. *)

\* The windows of DATE_RANGES (15 in the script, lines 28-44).
NumWindows == 3

\* Most records the model lets one window hold.
MaxBatch == 2

\* Whether the records of an answer come with a year field: "none" is a
\* record without the key, "srv" one with the year the server gave it.
DisYearFields == {"none", "srv"}

\* The n records the server gives for window w: window and pos say where the
\* record came from; year, seq, date and entity are columns of the record
\* (the records of a window are distinct and dated within the window).
Batch(w, n, y) ==
    [k \in 1..n |-> [window |-> w, pos |-> k, year |-> y,
                     seq |-> k, date |-> w, entity |-> "X"]]

DisIdle ==
    /\ window = 0
    /\ d_data = <<>>
    /\ d_all_data = <<>>
    /\ d_requests = <<>>
    /\ raw = <<>>
    /\ dis_csv = <<>>
    /\ d_exc = ""
    /\ dpc = "idle"

\* lines 93-95
DisInit ==
    /\ window = 1
    /\ d_data = <<>>
    /\ d_all_data = <<>>
    /\ d_requests = <<>>
    /\ raw = <<>>
    /\ dis_csv = <<>>
    /\ d_exc = ""
    /\ dpc = "fetch"

\* line 95: the loop goes on to the next window, or ends after the last
AfterWindow(w) == IF w < NumWindows THEN "fetch" ELSE "fetched"

\* lines 98-107, 63-70: the request raises RequestException; fetch_data
\* prints it and returns [], nothing is saved or merged
DisFetchFailed ==
    /\ dpc = "fetch"
    /\ d_requests' = Append(d_requests, [window |-> window, failed |-> TRUE, n |-> 0])
    /\ window' = window + 1
    /\ dpc' = AfterWindow(window)
    /\ UNCHANGED <<d_data, d_all_data, raw, dis_csv, d_exc>>
    /\ UNCHANGED notDis

\* lines 98-107, 66-67: the answer is an empty list, or no list
DisFetchEmpty ==
    /\ dpc = "fetch"
    /\ d_requests' = Append(d_requests, [window |-> window, failed |-> FALSE, n |-> 0])
    /\ window' = window + 1
    /\ dpc' = AfterWindow(window)
    /\ UNCHANGED <<d_data, d_all_data, raw, dis_csv, d_exc>>
    /\ UNCHANGED notDis

\* lines 98-102: the answer is a list of records
DisFetchBatch ==
    /\ dpc = "fetch"
    /\ \E n \in 1..MaxBatch, y \in DisYearFields :
         /\ d_requests' = Append(d_requests, [window |-> window, failed |-> FALSE, n |-> n])
         /\ d_data' = Batch(window, n, y)
    /\ dpc' = "save"
    /\ UNCHANGED <<window, d_all_data, raw, dis_csv, d_exc>>
    /\ UNCHANGED notDis

\* lines 102-103: the records are written to the snapshot
\* disasters_{start_date}_{end_date}.json
DisSaveRaw ==
    /\ dpc = "save"
    /\ raw' = raw @@ (window :> d_data)
    /\ dpc' = "extend"
    /\ UNCHANGED <<window, d_data, d_all_data, d_requests, dis_csv, d_exc>>
    /\ UNCHANGED notDis

\* lines 104-107: the records are merged, as they came, and the loop goes on
DisExtend ==
    /\ dpc = "extend"
    /\ d_all_data' = d_all_data \o d_data
    /\ d_data' = <<>>
    /\ window' = window + 1
    /\ dpc' = AfterWindow(window)
    /\ UNCHANGED <<d_requests, raw, dis_csv, d_exc>>
    /\ UNCHANGED notDis

\* lines 112-114: nothing was fetched, main ends
DisNoData ==
    /\ dpc = "fetched"
    /\ d_all_data = <<>>
    /\ dpc' = "halted"
    /\ UNCHANGED <<window, d_data, d_all_data, d_requests, raw, dis_csv, d_exc>>
    /\ UNCHANGED notDis

\* lines 116-117: the merged records become the table
DisToTable ==
    /\ dpc = "fetched"
    /\ d_all_data # <<>>
    /\ dpc' = "table"
    /\ UNCHANGED <<window, d_data, d_all_data, d_requests, raw, dis_csv, d_exc>>
    /\ UNCHANGED notDis

-----------------------------------------------------------------------------
(* The cleaners: fetch_occupational_disasters.main lines 116-128 and          *)
(* fetch_mol_webservices.main lines 145-164.                                  *)

\* Most rows of a merged table.
MaxRows == 3

\* The rows of the tables: seq, date and entity stand for the key columns,
\* kind for the columns that are no part of the key.
Rows == [seq : {1, 2}, date : {"20240101", "20240102"},
         entity : {"X", "Y"}, kind : {"p", "q"}]

\* subset=["序號", "發生日期", "事業單位"]
Key(row) == <<row.seq, row.date, row.entity>>

\* DataFrame.drop_duplicates(subset=..., keep="last")
RECURSIVE KeepLast(_, _)
KeepLast(rs, seen) ==
    IF rs = <<>> THEN <<>>
    ELSE LET r == rs[Len(rs)]
             front == SubSeq(rs, 1, Len(rs) - 1)
         IN  IF Key(r) \in seen THEN KeepLast(front, seen)
             ELSE Append(KeepLast(front, seen \cup {Key(r)}), r)

\* DataFrame.drop_duplicates(subset=..., keep="first"): a row is dropped when
\* an earlier row has its key
RECURSIVE KeepFirst(_, _)
KeepFirst(rs, seen) ==
    IF rs = <<>> THEN <<>>
    ELSE IF Key(Head(rs)) \in seen THEN KeepFirst(Tail(rs), seen)
    ELSE <<Head(rs)>> \o KeepFirst(Tail(rs), seen \cup {Key(Head(rs))})

CleanIdle ==
    /\ cleaner = "none"
    /\ rows0 = <<>>
    /\ df = <<>>
    /\ original_count = 0
    /\ duplicates_removed = 0
    /\ reported = FALSE
    /\ cpc = "idle"

\* df = pd.DataFrame(all_data): main got here, so all_data is not empty
CleanInit ==
    /\ cleaner \in {"disasters", "mol"}
    /\ rows0 \in SeqsOf(Rows, 1, MaxRows)
    /\ df = rows0
    /\ original_count = 0
    /\ duplicates_removed = 0
    /\ reported = FALSE
    /\ cpc = "table"

\* disasters lines 124-128, mol lines 160-164 (the renaming of mol lines
\* 153-157 touches no key column)
RemoveDuplicates ==
    /\ cpc = "table"
    /\ original_count' = Len(df)
    /\ df' = KeepFirst(df, {})
    /\ duplicates_removed' = Len(df) - Len(KeepFirst(df, {}))
    /\ reported' = (Len(df) - Len(KeepFirst(df, {})) > 0)
    /\ cpc' = "deduplicated"
    /\ UNCHANGED <<cleaner, rows0>>
    /\ UNCHANGED notClean

CleanNext ==
    \/ RemoveDuplicates

-----------------------------------------------------------------------------
(* The fetchers' main after the loop: the table is cleaned, sorted and        *)
(* written to the processed CSV.                                              *)

\* Rows by descending date, rows of one date in their order.
RECURSIVE SortedByDateDesc(_)
SortedByDateDesc(rs) ==
    IF rs = <<>> THEN <<>>
    ELSE LET top == CHOOSE d \in {rs[k].date : k \in 1..Len(rs)} :
                        \A k \in 1..Len(rs) : rs[k].date <= d
         IN  SelectSeq(rs, LAMBDA r : r.date = top)
                 \o SortedByDateDesc(SelectSeq(rs, LAMBDA r : r.date # top))

\* sort_values(["年度", "發生日期"], ascending=[False, False]): a record's
\* year is the year of its date, so the rows with a year come by descending
\* date; the rows without one (NaN) come last, whatever the direction
SortedByYearAndDate(rs) ==
    SortedByDateDesc(SelectSeq(rs, LAMBDA r : r.year \notin {"none", ""}))
        \o SortedByDateDesc(SelectSeq(rs, LAMBDA r : r.year \in {"none", ""}))

\* fetch_mol_webservices lines 148-174: columns renamed, duplicates dropped,
\* rows sorted and written; every merged record has a year by now
MolWrite ==
    /\ mpc = "table"
    /\ mol_csv' = SortedByYearAndDate(KeepFirst(merged, {}))
    /\ mpc' = "written"
    /\ UNCHANGED <<resource, schema, server, offset, all_data, requests, merged, raw_mol>>
    /\ UNCHANGED notMol

\* Whether the table has the column 年度: some record came with the key.
HasYearColumn(rs) == \E k \in 1..Len(rs) : rs[k].year # "none"

\* fetch_occupational_disasters lines 119-145: duplicates dropped, dates
\* reformatted, rows sorted and written
DisWrite ==
    /\ dpc = "table"
    /\ HasYearColumn(d_all_data)
    /\ dis_csv' = SortedByYearAndDate(KeepFirst(d_all_data, {}))
    /\ dpc' = "written"
    /\ UNCHANGED <<window, d_data, d_all_data, d_requests, raw, d_exc>>
    /\ UNCHANGED notDis

\* lines 119-136: no record came with the key 年度, so the table has no such
\* column and sort_values(["年度", ...]) raises KeyError; nothing is written
DisSortRaises ==
    /\ dpc = "table"
    /\ ~HasYearColumn(d_all_data)
    /\ d_exc' = "KeyError"
    /\ dpc' = "raised"
    /\ UNCHANGED <<window, d_data, d_all_data, d_requests, raw, dis_csv>>
    /\ UNCHANGED notDis

MolNext ==
    \/ MolFetchFailed
    \/ MolFetchEmpty
    \/ MolFetchShort
    \/ MolFetchFull
    \/ MolMainSkip
    \/ MolSaveRaw
    \/ MolTagAndMerge
    \/ MolNoData
    \/ MolToTable
    \/ MolWrite

DisNext ==
    \/ DisFetchFailed
    \/ DisFetchEmpty
    \/ DisFetchBatch
    \/ DisSaveRaw
    \/ DisExtend
    \/ DisNoData
    \/ DisToTable
    \/ DisWrite
    \/ DisSortRaises

-----------------------------------------------------------------------------
(* fetch_labor_violations: get_csrf_token, download_city_data and main's      *)
(* loop over CITY_CODES.                                                      *)

\* The cities of CITY_CODES (lines 26-56; the model runs the loop over few).
NumCities == 2

\* Most tables extract_csvs_from_zip gives for one city, and most rows of one.
MaxCityTables == 2
MaxCityRows == 2

\* What extract_csvs_from_zip can return for the archive of city c: the
\* accepted tables, each with the column 來源縣市 set to city_name (line 168).
\* city says where the table came from, source_city is the column.
CityTables(c) ==
    {[k \in 1..Len(ns) |-> [city |-> c, source_city |-> c, rows |-> ns[k]]] :
        ns \in SeqsOf(1..MaxCityRows, 0, MaxCityTables)}

\* pd.concat(all_dfs): the rows of the tables; table and row say which row of
\* which table it is.
RowsOfTables(ts) ==
    UNION {{[city |-> ts[t].city, source_city |-> ts[t].source_city,
             table |-> t, row |-> r] : r \in 1..ts[t].rows} : t \in 1..Len(ts)}

LaborIdle ==
    /\ csrf_token = ""
    /\ city = 0
    /\ zips = {}
    /\ all_dfs = <<>>
    /\ l_requests = <<>>
    /\ labor_csv = {}
    /\ l_exc = ""
    /\ lpc = "idle"

\* lines 189-215
LaborInit ==
    /\ csrf_token = ""
    /\ city = 0
    /\ zips = {}
    /\ all_dfs = <<>>
    /\ l_requests = <<>>
    /\ labor_csv = {}
    /\ l_exc = ""
    /\ lpc = "csrf"

\* lines 217, 60-69: the home page comes and holds the token; main enters
\* the loop over the cities
GetCsrfToken ==
    /\ lpc = "csrf"
    /\ l_requests' = Append(l_requests, [unit |-> 0, failed |-> FALSE])
    /\ csrf_token' = "token"
    /\ city' = 1
    /\ lpc' = "city"
    /\ UNCHANGED <<zips, all_dfs, labor_csv, l_exc>>
    /\ UNCHANGED notLabor

\* lines 217, 62-63: session.get raises (no answer, a timeout of the
\* connection) or raise_for_status raises HTTPError; neither get_csrf_token
\* nor main has a try around it, and the exception ends the script
GetCsrfTokenFails ==
    /\ lpc = "csrf"
    /\ l_requests' = Append(l_requests, [unit |-> 0, failed |-> TRUE])
    /\ l_exc' = "RequestException"
    /\ lpc' = "raised"
    /\ UNCHANGED <<csrf_token, city, zips, all_dfs, labor_csv>>
    /\ UNCHANGED notLabor

\* lines 217, 65-71: the home page comes without the token input;
\* get_csrf_token raises ValueError, which ends the script
GetCsrfTokenMissing ==
    /\ lpc = "csrf"
    /\ l_requests' = Append(l_requests, [unit |-> 0, failed |-> FALSE])
    /\ l_exc' = "ValueError"
    /\ lpc' = "raised"
    /\ UNCHANGED <<csrf_token, city, zips, all_dfs, labor_csv>>
    /\ UNCHANGED notLabor

\* line 224: the loop goes on to the next city, or ends after the last
AfterCity(c) == IF c < NumCities THEN "city" ELSE "fetched"

\* lines 227, 95-97, 107-109, 241-246: the request raises RequestException;
\* download_city_data prints it and returns None, nothing is saved or merged
DownloadFails ==
    /\ lpc = "city"
    /\ l_requests' = Append(l_requests, [unit |-> city, failed |-> TRUE])
    /\ city' = city + 1
    /\ lpc' = AfterCity(city)
    /\ UNCHANGED <<csrf_token, zips, all_dfs, labor_csv, l_exc>>
    /\ UNCHANGED notLabor

\* lines 227, 99-105, 241-246: the answer is no ZIP; None is returned
DownloadNotZip ==
    /\ lpc = "city"
    /\ l_requests' = Append(l_requests, [unit |-> city, failed |-> FALSE])
    /\ city' = city + 1
    /\ lpc' = AfterCity(city)
    /\ UNCHANGED <<csrf_token, zips, all_dfs, labor_csv, l_exc>>
    /\ UNCHANGED notLabor

\* lines 227-240, 246: the answer is a ZIP: it is saved, its tables are
\* extracted and merged
DownloadZip ==
    /\ lpc = "city"
    /\ l_requests' = Append(l_requests, [unit |-> city, failed |-> FALSE])
    /\ zips' = zips \cup {city}
    /\ \E tables \in CityTables(city) : all_dfs' = all_dfs \o tables
    /\ city' = city + 1
    /\ lpc' = AfterCity(city)
    /\ UNCHANGED <<csrf_token, labor_csv, l_exc>>
    /\ UNCHANGED notLabor

\* lines 227-236, 156-159, 181: the answer is a ZIP and is saved, and
\* pd.read_csv raises EmptyDataError on an entry of it, which
\* extract_csvs_from_zip does not catch: the exception ends the script
ExtractRaises ==
    /\ lpc = "city"
    /\ l_requests' = Append(l_requests, [unit |-> city, failed |-> FALSE])
    /\ zips' = zips \cup {city}
    /\ l_exc' = "EmptyDataError"
    /\ lpc' = "raised"
    /\ UNCHANGED <<csrf_token, city, all_dfs, labor_csv>>
    /\ UNCHANGED notLabor

\* lines 251-253: no table was extracted, main ends
LaborNoData ==
    /\ lpc = "fetched"
    /\ all_dfs = <<>>
    /\ lpc' = "halted"
    /\ UNCHANGED <<csrf_token, city, zips, all_dfs, l_requests, labor_csv, l_exc>>
    /\ UNCHANGED notLabor

\* lines 255-275: the tables are put together, the rows that are empty
\* throughout dropped (none is: 來源縣市 is set in every row), the rows sorted
\* and written. labor_csv is the rows of the CSV; their order is left out.
LaborWrite ==
    /\ lpc = "fetched"
    /\ all_dfs # <<>>
    /\ labor_csv' = RowsOfTables(all_dfs)
    /\ lpc' = "written"
    /\ UNCHANGED <<csrf_token, city, zips, all_dfs, l_requests, l_exc>>
    /\ UNCHANGED notLabor

LaborNext ==
    \/ GetCsrfToken
    \/ GetCsrfTokenFails
    \/ GetCsrfTokenMissing
    \/ DownloadFails
    \/ DownloadNotZip
    \/ DownloadZip
    \/ ExtractRaises
    \/ LaborNoData
    \/ LaborWrite

-----------------------------------------------------------------------------
(* fetch_osha_violations: download_csv and main up to the merged CSV.         *)

\* Most rows of the downloaded table.
MaxOshaRows == 2

OshaIdle ==
    /\ o_df = 0
    /\ o_requests = <<>>
    /\ osha_csv = 0
    /\ o_exc = ""
    /\ opc = "idle"

\* lines 52-60
OshaInit ==
    /\ o_df = 0
    /\ o_requests = <<>>
    /\ osha_csv = 0
    /\ o_exc = ""
    /\ opc = "download"

\* lines 63, 24-36: the CSV comes and parses; o_df is the number of its rows
DownloadCsv ==
    /\ opc = "download"
    /\ o_requests' = Append(o_requests, [unit |-> 0, failed |-> FALSE])
    /\ o_df' \in 0..MaxOshaRows
    /\ opc' = "loaded"
    /\ UNCHANGED <<osha_csv, o_exc>>
    /\ UNCHANGED notOsha

\* lines 63, 28-29: requests.get raises (a timeout, no connection) or
\* raise_for_status raises HTTPError; neither download_csv nor main has a try
\* around it, and the exception ends the script
DownloadCsvFails ==
    /\ opc = "download"
    /\ o_requests' = Append(o_requests, [unit |-> 0, failed |-> TRUE])
    /\ o_exc' = "RequestException"
    /\ opc' = "raised"
    /\ UNCHANGED <<o_df, osha_csv>>
    /\ UNCHANGED notOsha

\* lines 63, 34: the answer comes and pd.read_csv raises on it (an empty
\* body, a malformed line); the exception ends the script
ParseCsvRaises ==
    /\ opc = "download"
    /\ o_requests' = Append(o_requests, [unit |-> 0, failed |-> FALSE])
    /\ o_exc' \in {"EmptyDataError", "ParserError"}
    /\ opc' = "raised"
    /\ UNCHANGED <<o_df, osha_csv>>
    /\ UNCHANGED notOsha

\* lines 73-83: the rows are sorted and written; osha_csv is their number
OshaWrite ==
    /\ opc = "loaded"
    /\ osha_csv' = o_df
    /\ opc' = "written"
    /\ UNCHANGED <<o_df, o_requests, o_exc>>
    /\ UNCHANGED notOsha

OshaNext ==
    \/ DownloadCsv
    \/ DownloadCsvFails
    \/ ParseCsvRaises
    \/ OshaWrite

-----------------------------------------------------------------------------
(* The year-bucket export: fetch_labor_violations.main lines 287-322 and      *)
(* fetch_osha_violations.main lines 95-112.                                   *)

\* Most rows of a cleaned table.
MaxExportRows == 3

\* The penalty dates of the cleaned tables: Minguo slash dates in the
\* labor-violations table, YYYYMMDD numbers in the OSHA table.
LaborDates ==
    { StrVal(<<"1", "1", "4", "/", "1", "2", "/", "2", "6">>),
      StrVal(<<"1", "1", "3", "-", "0", "1", "-", "0", "5">>),
      StrVal(<<"2", "0", "2", "4", "/", "0", "1", "/", "0", "5">>),
      StrVal(<<"x">>),
      StrVal(<<>>),
      NaN }
OshaDates ==
    { IntVal(20240105), FloatVal(20251226), IntVal(20240630), IntVal(123),
      StrVal(<<"x">>), NaN }

\* fetch_labor_violations lines 296-298: Minguo years are below 200
ToGregorian(y) == IF y < 200 THEN y + 1911 ELSE y

\* fetch_labor_violations lines 289-301
parse_roc_year(date_str) ==
    IF IsNa(date_str) THEN None
    ELSE LET parts0 == FirstPart(Replace(Strip(ToStr(date_str)), "-", "/"), "/")
             roc_year == ParseInt(parts0)
         IN  IF roc_year.t = "int" THEN IntVal(ToGregorian(roc_year.v)) ELSE None

\* fetch_osha_violations lines 39-49; int(date_val) of a string is int(s)
parse_year(val) ==
    IF IsNa(val) THEN None
    ELSE LET n == IF val.t = "str" THEN ParseInt(val.s) ELSE IntVal(val.v)
         IN  IF n.t # "int" THEN None
             ELSE IF Len(IntToStr(n.v)) >= 4
                  THEN ParseInt(Prefix(IntToStr(n.v), 4))
                  ELSE None

\* labor line 308, osha line 101: df[df["_year"] == year]
YearRowsFrom(col, year) == {k \in 1..Len(col) : col[k].t = "int" /\ col[k].v >= year}
YearRows(col, year) == {k \in 1..Len(col) : col[k].t = "int" /\ col[k].v = year}

\* labor line 315, osha line 108: df[df["_year"].isna()]
UnknownRows(col) == {k \in 1..Len(col) : col[k].t = "none"}

\* labor line 306, osha line 99: df["_year"].dropna().unique()
Years(col) == {col[k].v : k \in {k \in 1..Len(col) : col[k].t = "int"}}

ExportIdle ==
    /\ script = "none"
    /\ df_all = <<>>
    /\ year_col = <<>>
    /\ year_files = <<>>
    /\ unknown_file = {}
    /\ epc = "idle"

\* The cleaned table, with its penalty-date column; a row is its position.
ExportInit ==
    /\ script \in {"labor", "osha"}
    /\ df_all \in SeqsOf(IF script = "labor" THEN LaborDates ELSE OshaDates,
                         1, MaxExportRows)
    /\ year_col = <<>>
    /\ year_files = <<>>
    /\ unknown_file = {}
    /\ epc = "parse"

\* labor line 303, osha line 96: the _year column
ApplyParseYear ==
    /\ epc = "parse"
    /\ year_col' = [k \in 1..Len(df_all) |->
                      IF script = "labor" THEN parse_roc_year(df_all[k])
                      ELSE parse_year(df_all[k])]
    /\ epc' = "years"
    /\ UNCHANGED <<script, df_all, year_files, unknown_file>>
    /\ UNCHANGED notExport

Written == {year_files[k].year : k \in 1..Len(year_files)}

\* labor lines 306-312, osha lines 99-105: one turn of the loop over the
\* years in increasing order
WriteYearFile ==
    /\ epc = "years"
    /\ Years(year_col) \ Written # {}
    /\ LET year == CHOOSE y \in Years(year_col) \ Written :
                       \A z \in Years(year_col) \ Written : y <= z
       IN  year_files' = Append(year_files,
                                [year |-> year, rows |-> YearRows(year_col, year)])
    /\ UNCHANGED <<script, df_all, year_col, unknown_file, epc>>
    /\ UNCHANGED notExport

\* labor lines 315-319, osha lines 108-112: the file of the unknown dates is
\* written when it has rows
WriteUnknownFile ==
    /\ epc = "years"
    /\ Years(year_col) \ Written = {}
    /\ unknown_file' = UnknownRows(year_col)
    /\ epc' = "exported"
    /\ UNCHANGED <<script, df_all, year_col, year_files>>
    /\ UNCHANGED notExport

ExportNext ==
    \/ ApplyParseYear
    \/ WriteYearFile
    \/ WriteUnknownFile

-----------------------------------------------------------------------------
(* compare_sources: normalize_year, normalize_date, compare_counts and        *)
(* find_unique_records.                                                       *)

\* The sentinels of line 33; "zui", "xin" stand for the two characters of the
\* Chinese one.
LATEST == <<"l", "a", "t", "e", "s", "t">>
ZUIXIN == <<"zui", "xin">>

\* float(s) of a string with no blanks around and no sign: the digits before
\* the point as a number, or -1 when s is no decimal numeral. where is "int"
\* before the point and "frac" after it.
RECURSIVE ScanDecimal(_, _, _, _)
ScanDecimal(s, where, whole, digit) ==
    IF s = <<>> THEN (IF digit THEN whole ELSE -1)
    ELSE IF Head(s) \in Digits
         THEN ScanDecimal(Tail(s), where,
                          IF where = "int" THEN 10 * whole + DigitValue(Head(s))
                          ELSE whole, TRUE)
    ELSE IF Head(s) = "." /\ where = "int"
         THEN ScanDecimal(Tail(s), "frac", whole, digit)
    ELSE -1

\* int(float(s)): the float is cut towards zero; int() of an infinity raises
\* OverflowError, int() of a nan and float() of anything else ValueError
IntOfFloat(s) ==
    LET t == Strip(s)
        signed == t # <<>> /\ Head(t) \in {"+", "-"}
        body == IF signed THEN Tail(t) ELSE t
        whole == ScanDecimal(body, "int", 0, FALSE)
    IN  IF body \in {<<"i", "n", "f">>, <<"i", "n", "f", "i", "n", "i", "t", "y">>}
        THEN Raise("OverflowError")
        ELSE IF body = <<"n", "a", "n">> \/ whole < 0 THEN Raise("ValueError")
        ELSE IntVal(IF signed /\ Head(t) = "-" THEN 0 - whole ELSE whole)

\* lines 38-40
MinguoToGregorian(year_int) == IF year_int < 200 THEN year_int + 1911 ELSE year_int

\* lines 28-42; pd.isna holds of NaN and of None
normalize_year(val) ==
    IF val.t \in {"nan", "none"} THEN None
    ELSE LET year_str == Strip(ToStr(val))
             year_int == IntOfFloat(year_str)
         IN  IF year_str \in {ZUIXIN, LATEST} THEN IntVal(2025)
             ELSE IF year_int.t = "int" THEN IntVal(MinguoToGregorian(year_int.v))
             ELSE IF year_int.exc = "ValueError" THEN None
             ELSE year_int

\* s.replace("-", "", 1)
RECURSIVE RemoveFirst(_, _)
RemoveFirst(s, c) ==
    IF s = <<>> THEN <<>>
    ELSE IF Head(s) = c THEN Tail(s)
    ELSE <<Head(s)>> \o RemoveFirst(Tail(s), c)

\* line 118: date_str.replace("-", "")
StripFirstDash(date_str) == RemoveFirst(date_str, "-")
StripDashes(date_str) == Remove(date_str, "-")

\* lines 112-119
normalize_date(val) ==
    IF val.t \in {"nan", "none"} THEN None
    ELSE LET date_str == StripDashes(Strip(ToStr(val)))
         IN  StrVal(IF Len(date_str) >= 8 THEN Prefix(date_str, 8) ELSE date_str)

\* Series.astype(str) on a cell
AsStr(x) == IF x.t \in {"nan", "none"} THEN <<"N", "o", "n", "e">> ELSE ToStr(x)

\* lines 136-139: the composite key of a row
RowKey(row) == AsStr(StrVal(row.entity)) \o <<"_">> \o AsStr(normalize_date(row.date))

\* lines 141-142
Keys(table) == {RowKey(table[k]) : k \in 1..Len(table)}

\* lines 56-60: groupby("年度_標準").size(); rows with no year are left out
YearCounts(table) ==
    LET std == [k \in 1..Len(table) |-> normalize_year(table[k].year)]
        years == {std[k].v : k \in {j \in 1..Len(table) : std[j].t = "int"}}
    IN  [y \in years |-> Cardinality({k \in 1..Len(table) : std[k] = IntVal(y)})]

\* Most characters of a year string, largest year number, most characters of
\* a date string, and most rows of a table the comparator is given.
MaxYearStrLen == 3
MaxYearValue == 205
MaxDateLen == 9
MaxTableRows == 2

YearChars == {"0", "1", "2", "9", ".", "-", " ", "x"}
DateChars == {"2", "-", " "}

YearInputs ==
    {NaN, IntVal(-1), IntVal(1911), IntVal(2024), FloatVal(2024)}
    \cup {IntVal(n) : n \in 0..MaxYearValue}
    \cup {FloatVal(n) : n \in 0..MaxYearValue}
    \cup {StrVal(s) : s \in SeqsOf(YearChars, 0, MaxYearStrLen)}
    \cup {StrVal(LATEST), StrVal(ZUIXIN), StrVal(<<" ">> \o LATEST \o <<" ">>),
          StrVal(<<"i", "n", "f">>), StrVal(<<"n", "a", "n">>),
          StrVal(<<"1", "1", "3", ".", "0">>), StrVal(<<"2", "0", "2", "5">>)}

DateInputs == {NaN} \cup {StrVal(s) : s \in SeqsOf(DateChars, 0, MaxDateLen)}

DASHED == <<"2", "0", "2", "4", "-", "0", "1", "-", "0", "1">>
PLAIN == <<"2", "0", "2", "4", "0", "1", "0", "1">>
Y113 == <<"1", "1", "3">>

CompareRows ==
    [entity : {<<"X">>, <<"Y">>},
     date : {StrVal(DASHED), StrVal(PLAIN)},
     year : {IntVal(113), StrVal(Y113)}]

YearIdle == year_val = NaN /\ year_result = None /\ ypc = "idle"
DateIdle == date_val = NaN /\ once = None /\ twice = None /\ npc = "idle"
CompareIdle ==
    /\ pacs_df = <<>>
    /\ mol_df = <<>>
    /\ pacs_counts = <<>>
    /\ mol_counts = <<>>
    /\ common_keys = {}
    /\ pacs_only = {}
    /\ mol_only = {}
    /\ kpc = "idle"

YearInit == year_val \in YearInputs /\ year_result = None /\ ypc = "call"

\* lines 28-42
NormalizeYear ==
    /\ ypc = "call"
    /\ year_result' = normalize_year(year_val)
    /\ ypc' = IF normalize_year(year_val).t = "raise" THEN "raised" ELSE "returned"
    /\ UNCHANGED year_val
    /\ UNCHANGED notYear

DateInit == date_val \in DateInputs /\ once = None /\ twice = None /\ npc = "call"

\* lines 112-119
NormalizeDate ==
    /\ npc = "call"
    /\ once' = normalize_date(date_val)
    /\ npc' = "once"
    /\ UNCHANGED <<date_val, twice>>
    /\ UNCHANGED notDate

\* lines 112-119, on the result of the first call
NormalizeDateAgain ==
    /\ npc = "once"
    /\ twice' = normalize_date(once)
    /\ npc' = "twice"
    /\ UNCHANGED <<date_val, once>>
    /\ UNCHANGED notDate

\* lines 17-25: the two processed tables
CompareInit ==
    /\ pacs_df \in SeqsOf(CompareRows, 0, MaxTableRows)
    /\ mol_df \in SeqsOf(CompareRows, 0, MaxTableRows)
    /\ pacs_counts = <<>>
    /\ mol_counts = <<>>
    /\ common_keys = {}
    /\ pacs_only = {}
    /\ mol_only = {}
    /\ kpc = "loaded"

\* lines 45-87
compare_counts ==
    /\ kpc = "loaded"
    /\ pacs_counts' = YearCounts(pacs_df)
    /\ mol_counts' = YearCounts(mol_df)
    /\ kpc' = "counted"
    /\ UNCHANGED <<pacs_df, mol_df, common_keys, pacs_only, mol_only>>
    /\ UNCHANGED notCompare

\* lines 122-150
find_unique_records ==
    /\ kpc = "counted"
    /\ common_keys' = Keys(pacs_df) \cap Keys(mol_df)
    /\ pacs_only' = Keys(pacs_df) \ Keys(mol_df)
    /\ mol_only' = Keys(mol_df) \ Keys(pacs_df)
    /\ kpc' = "compared"
    /\ UNCHANGED <<pacs_df, mol_df, pacs_counts, mol_counts>>
    /\ UNCHANGED notCompare

YearNext ==
    \/ NormalizeYear

DateNext ==
    \/ NormalizeDate
    \/ NormalizeDateAgain

CompareNext ==
    \/ compare_counts
    \/ find_unique_records

-----------------------------------------------------------------------------
(* The specifications, one per script or part of a script.                    *)

ScriptsIdle ==
    /\ RepairIdle /\ ExtractIdle /\ MolIdle /\ DisIdle /\ CleanIdle /\ ExportIdle
    /\ LaborIdle /\ OshaIdle
NormIdle == YearIdle /\ DateIdle /\ CompareIdle
HttpIdle == LaborIdle /\ OshaIdle

InitRepair ==
    /\ RepairInit
    /\ ExtractIdle /\ MolIdle /\ DisIdle /\ CleanIdle /\ ExportIdle /\ NormIdle /\ HttpIdle
SpecRepair == InitRepair /\ [][RepairNext]_vars

InitExtract ==
    /\ ExtractInit
    /\ RepairIdle /\ MolIdle /\ DisIdle /\ CleanIdle /\ ExportIdle /\ NormIdle /\ HttpIdle
SpecExtract == InitExtract /\ [][ExtractNext]_vars

\* The two JSON fetchers: a run is a run of one of them.
InitFetch ==
    /\ RepairIdle /\ ExtractIdle /\ CleanIdle /\ ExportIdle /\ NormIdle /\ HttpIdle
    /\ \/ MolInit /\ DisIdle
       \/ DisInit /\ MolIdle
NextFetch == MolNext \/ DisNext
SpecFetch == InitFetch /\ [][NextFetch]_vars

\* fetch_mol_webservices from the call of fetch_all_data for the last
\* resource on, the resources before it having answered their first request
\* with no record; every step is taken in the end: a request has a timeout
\* (line 54), so it ends in an answer or in an exception, and nothing else in
\* the loops waits.
MolLastCall ==
    /\ resource = NumResources
    /\ schema \in YearFields
    /\ server \in Servers
    /\ offset = 0
    /\ all_data = <<>>
    /\ requests = [r \in 1..(NumResources - 1) |->
                      [resource |-> r, offset |-> 0, failed |-> FALSE, n |-> 0]]
    /\ merged = <<>>
    /\ raw_mol = <<>>
    /\ mol_csv = <<>>
    /\ mpc = "fetch"
InitPaging ==
    /\ MolLastCall
    /\ RepairIdle /\ ExtractIdle /\ DisIdle /\ CleanIdle /\ ExportIdle /\ NormIdle /\ HttpIdle
SpecPaging == InitPaging /\ [][MolNext]_vars /\ WF_vars(MolNext)

\* The four scripts that fetch: a run is a run of one of them.
InitScripts ==
    /\ RepairIdle /\ ExtractIdle /\ CleanIdle /\ ExportIdle /\ NormIdle
    /\ \/ MolInit /\ DisIdle /\ LaborIdle /\ OshaIdle
       \/ DisInit /\ MolIdle /\ LaborIdle /\ OshaIdle
       \/ LaborInit /\ MolIdle /\ DisIdle /\ OshaIdle
       \/ OshaInit /\ MolIdle /\ DisIdle /\ LaborIdle
NextScripts == MolNext \/ DisNext \/ LaborNext \/ OshaNext
SpecScripts == InitScripts /\ [][NextScripts]_vars

InitClean ==
    /\ CleanInit
    /\ RepairIdle /\ ExtractIdle /\ MolIdle /\ DisIdle /\ ExportIdle /\ NormIdle /\ HttpIdle
SpecClean == InitClean /\ [][CleanNext]_vars

InitExport ==
    /\ ExportInit
    /\ RepairIdle /\ ExtractIdle /\ MolIdle /\ DisIdle /\ CleanIdle /\ NormIdle /\ HttpIdle
SpecExport == InitExport /\ [][ExportNext]_vars

InitYear == YearInit /\ ScriptsIdle /\ DateIdle /\ CompareIdle
SpecYear == InitYear /\ [][YearNext]_vars

InitDate == DateInit /\ ScriptsIdle /\ YearIdle /\ CompareIdle
SpecDate == InitDate /\ [][DateNext]_vars

InitCompare == CompareInit /\ ScriptsIdle /\ YearIdle /\ DateIdle
SpecCompare == InitCompare /\ [][CompareNext]_vars

-----------------------------------------------------------------------------
(* C1 *)

\* The logical lines a greedy quote-balancing gives: a line is extended with
\* the following ones, sep between them, while its quote count is odd and
\* lines remain.
RECURSIVE Balance(_, _, _)
Balance(cur, rest, sep) ==
    IF Count(cur, QUOTE) % 2 = 0 \/ rest = <<>> THEN <<cur, rest>>
    ELSE Balance(cur \o sep \o Head(rest), Tail(rest), sep)

RECURSIVE Balanced(_, _)
Balanced(ls, sep) ==
    IF ls = <<>> THEN <<>>
    ELSE LET g == Balance(Head(ls), Tail(ls), sep)
         IN  <<g[1]>> \o Balanced(g[2], sep)

\* The records of a CSV text: its line breaks outside quotes, plus one.
RECURSIVE BreaksOutsideQuotes(_, _)
BreaksOutsideQuotes(t, open) ==
    IF t = <<>> THEN 0
    ELSE IF Head(t) = QUOTE THEN BreaksOutsideQuotes(Tail(t), ~open)
    ELSE (IF Head(t) = "\n" /\ ~open THEN 1 ELSE 0)
         + BreaksOutsideQuotes(Tail(t), open)

CsvRecords(t) == BreaksOutsideQuotes(t, FALSE) + 1

SplitField == << <<"a", ",", QUOTE, "b">>, <<"c", QUOTE, ",", "d">> >>

\* C1 as stated: the repaired lines are the physical lines joined, line break
\* kept, until the quotes balance; a,"b and c",d give a,"b<newline>c",d.
C1_JoinKeepsLineBreak ==
    rpc = "repaired" =>
        /\ fixed_lines = Balanced(lines, <<"\n">>)
        /\ lines = SplitField =>
             fixed_lines = << <<"a", ",", QUOTE, "b", "\n", "c", QUOTE, ",", "d">> >>

\* C1 as amended: a line with an odd quote count is joined with the following
\* physical lines until its quote count is even or no line is left, the
\* pieces put end to end with nothing between them; a,"b and c",d give the
\* one line a,"bc",d, with an even quote count, one CSV record.
C1_JoinDropsLineBreak ==
    /\ rpc = "repaired" =>
         /\ fixed_lines = Balanced(lines, <<>>)
         /\ \A k \in 1..Len(fixed_lines) : Count(fixed_lines[k], "\n") = 0
         /\ \A k \in 1..Len(fixed_lines) - 1 :
                Count(fixed_lines[k], QUOTE) % 2 = 0
         /\ lines = SplitField =>
              fixed_lines = << <<"a", ",", QUOTE, "b", "c", QUOTE, ",", "d">> >>
    /\ (rpc = "joined" /\ lines = SplitField) =>
         /\ fixed_text = <<"a", ",", QUOTE, "b", "c", QUOTE, ",", "d">>
         /\ Count(fixed_text, QUOTE) % 2 = 0
         /\ CsvRecords(fixed_text) = 1

\* The split field a,"b / c",d has been repaired and joined into the text.
C1_Witness ==
    /\ rpc = "joined"
    /\ lines = SplitField
    /\ Len(fixed_lines) = 1

-----------------------------------------------------------------------------
(* C2 *)

\* The attempts on the entry last read are over.
AttemptsOver == xpc \in {"entry", "returned", "raised"} /\ tried # <<>>

Unaccepted(o) == o.kind = "table" /\ (o.rows = 0 \/ o.cols <= 1)

\* C2 as stated: an attempt that decodes and parses but gives a table with
\* zero rows or at most one column is followed by the next encoding; an entry
\* is given up only after all four were tried.
C2_UnacceptedTableTriesNext ==
    AttemptsOver =>
        \A k \in 1..Len(tried) :
            (Unaccepted(tried[k].outcome) /\ k < Len(ENCODINGS)) => Len(tried) > k

\* C2 as amended: the encodings are tried in the order utf-8-sig, utf-8, big5,
\* cp950; the next one is tried only after an attempt that raised
\* UnicodeDecodeError or ParserError; the first attempt that decodes and
\* parses ends the attempts on the entry, and its table is kept only if it
\* has at least one row and more than one column: a table with zero rows or
\* at most one column is dropped and no further encoding is tried.
C2_FirstParsedEndsAttempts ==
    /\ Len(tried) <= 4
    /\ \A k \in 1..Len(tried) :
         /\ tried[k].encoding = <<"utf-8-sig", "utf-8", "big5", "cp950">>[k]
         /\ k < Len(tried) =>
              tried[k].outcome.kind \in {"UnicodeDecodeError", "ParserError"}
    /\ AttemptsOver =>
         LET last == tried[Len(tried)].outcome
             kept == \E d \in 1..Len(dfs) :
                        /\ dfs[d].file = entry - 1
                        /\ dfs[d].encoding = tried[Len(tried)].encoding
         IN  /\ last.kind \in {"UnicodeDecodeError", "ParserError"}
                  => Len(tried) = 4
             /\ (xpc = "entry" /\ namelist[entry - 1]) =>
                  (kept <=> (last.kind = "table" /\ last.rows >= 1 /\ last.cols >= 2))
    /\ \A d \in 1..Len(dfs) : dfs[d].rows >= 1 /\ dfs[d].cols >= 2

\* The first encoding decoded and parsed into a table with no rows, and the
\* entry was left without a table and without a second attempt.
C2_Witness ==
    /\ xpc = "entry"
    /\ Len(tried) = 1
    /\ Unaccepted(tried[1].outcome)
    /\ dfs = <<>>

-----------------------------------------------------------------------------
(* C10 *)

\* C10 as stated: an archive found corrupt, at opening or while an entry is
\* read, gives an empty list, also after earlier entries were parsed.
C10_CorruptArchiveGivesNothing ==
    (xpc = "returned" /\ corrupt) => dfs = <<>>

-----------------------------------------------------------------------------
(* C3 *)

RECURSIVE SumN(_)
SumN(reqs) == IF reqs = <<>> THEN 0 ELSE Head(reqs).n + SumN(Tail(reqs))

MolOver == mpc \in {"fetched", "halted", "table"}
DisOver == dpc \in {"fetched", "halted", "table"}

\* C3 as stated: after a failed request the loop goes on with the next
\* request unit: the next window in fetch_occupational_disasters, the next
\* offset of the same resource in fetch_all_data.
C3_FailedPageContinues ==
    /\ \A k \in 1..Len(d_requests) :
         (d_requests[k].failed /\ d_requests[k].window < NumWindows) =>
             /\ k < Len(d_requests) =>
                  d_requests[k + 1].window = d_requests[k].window + 1
             /\ k = Len(d_requests) =>
                  (dpc = "fetch" /\ window = d_requests[k].window + 1)
    /\ \A k \in 1..Len(requests) :
         requests[k].failed =>
             /\ mpc # "return"
             /\ k < Len(requests) =>
                  /\ requests[k + 1].resource = requests[k].resource
                  /\ requests[k + 1].offset = requests[k].offset + limit

\* C3 as amended: in both fetchers a failed request is caught and treated as
\* an empty page. In fetch_occupational_disasters.main the loop goes on with
\* the next window, so every window is requested. In fetch_all_data the empty
\* page ends the loop: the function returns the records of the pages before
\* it, no further offset of that resource is requested, and main goes on
\* with the next resource, so every resource is requested.
C3_FailedPageEndsResource ==
    /\ \A k \in 1..Len(d_requests) :
         /\ d_requests[k].window = k
         /\ d_requests[k].failed =>
              (d_requests[k].n = 0 /\ d_requests[k].window \notin DOMAIN raw)
    /\ Len(d_all_data) + Len(d_data) = SumN(d_requests)
    /\ DisOver => Len(d_requests) = NumWindows
    /\ \A k \in 1..Len(requests) :
         requests[k].failed =>
             /\ requests[k].n = 0
             /\ k < Len(requests) =>
                  /\ requests[k + 1].resource = requests[k].resource + 1
                  /\ requests[k + 1].offset = 0
             /\ k = Len(requests) =>
                  (mpc = "fetch" => (resource = requests[k].resource + 1 /\ offset = 0))
    /\ Len(merged) + Len(all_data) = SumN(requests)
    /\ MolOver => \A r \in 1..NumResources : Current(requests, r) # <<>>

\* A request of fetch_all_data failed after a full page, the page's records
\* were kept, and the next resource has been asked for.
C3_Witness ==
    \E k \in 1..Len(requests) :
        /\ requests[k].failed
        /\ requests[k].offset > 0
        /\ k < Len(requests)
        /\ Len(merged) >= limit

-----------------------------------------------------------------------------
(* C9 *)

\* C9: a fetch_all_data call asks for the offsets 0, limit, 2*limit, ... in
\* that order, one request per offset; every page before the last one held
\* at least limit records, and the call returns right after the first page
\* that holds fewer; what it returns is the pages' records, in request order.
C9_PagesInOrderUntilShort ==
    \A r \in 1..NumResources :
        LET R == Current(requests, r)
        IN  /\ \A k \in 1..Len(R) : R[k].offset = (k - 1) * limit
            /\ \A k \in 1..Len(R) - 1 : R[k].n >= limit
            /\ (r < resource \/ (r = resource /\ mpc = "return")) =>
                 /\ R # <<>>
                 /\ R[Len(R)].n < limit
            /\ (r = resource /\ mpc \in {"fetch", "return"}) =>
                 /\ (mpc = "fetch" /\ R # <<>>) => R[Len(R)].n >= limit
                 /\ Len(all_data) = SumN(R)
                 /\ \A j \in 1..Len(all_data) :
                      /\ all_data[j].resource = r
                      /\ all_data[j].pos = j
                      /\ all_data[j].year = schema

\* Two full pages and then a short one: the call has returned their records.
C9_Witness ==
    /\ mpc = "return"
    /\ Len(Current(requests, resource)) = 3
    /\ requests[Len(requests)].n = 1
    /\ Len(all_data) = 2 * limit + 1

-----------------------------------------------------------------------------
(* C4 *)

\* The positions of the rows no earlier row shares the key triple with.
FirstOfKey(rs) ==
    {k \in 1..Len(rs) : \A j \in 1..(k - 1) :
        <<rs[j].seq, rs[j].date, rs[j].entity>> # <<rs[k].seq, rs[k].date, rs[k].entity>>}

\* The rows of rs at the positions of P, in their order in rs.
RECURSIVE RowsAt(_, _, _)
RowsAt(rs, P, k) ==
    IF k > Len(rs) THEN <<>>
    ELSE (IF k \in P THEN <<rs[k]>> ELSE <<>>) \o RowsAt(rs, P, k + 1)

-----------------------------------------------------------------------------
(* C6 *)

\* The year files a row is in, and whether it is in the unknown file.
FilesOf(k) == {f \in 1..Len(year_files) : k \in year_files[f].rows}

RECURSIVE FileRows(_)
FileRows(fs) == IF fs = <<>> THEN 0 ELSE Cardinality(Head(fs).rows) + FileRows(Tail(fs))

\* C6: no row is ever in two year files, or in a year file and the unknown
\* file; once the export is over every row is in exactly one file, the file
\* of its year or the unknown file when it has none, and the files' row
\* counts add up to the table's.
C6_EveryRowInOneFile ==
    /\ \A k \in 1..Len(df_all) :
         /\ Cardinality(FilesOf(k)) <= 1
         /\ ~(FilesOf(k) # {} /\ k \in unknown_file)
    /\ \A f, g \in 1..Len(year_files) :
         f # g => year_files[f].year # year_files[g].year
    /\ epc = "exported" =>
         /\ \A k \in 1..Len(df_all) :
              /\ Cardinality(FilesOf(k)) + (IF k \in unknown_file THEN 1 ELSE 0) = 1
              /\ year_col[k].t = "int" =>
                   \E f \in FilesOf(k) : year_files[f].year = year_col[k].v
              /\ year_col[k].t # "int" => k \in unknown_file
         /\ FileRows(year_files) + Cardinality(unknown_file) = Len(df_all)

\* A labor-violations table with rows of two years and a row with no year:
\* two year files and the unknown file were written.
C6_Witness ==
    /\ epc = "exported"
    /\ script = "labor"
    /\ Len(df_all) = 3
    /\ Len(year_files) = 2
    /\ Cardinality(unknown_file) = 1

-----------------------------------------------------------------------------
(* C5 *)

\* A string is a decimal numeral when, blanks around it and one leading sign
\* aside, it holds digits and at most one point, and at least one digit.
IsNumeral(s) ==
    LET t == Strip(s)
        b == IF t # <<>> /\ Head(t) \in {"+", "-"} THEN Tail(t) ELSE t
    IN  /\ \A k \in 1..Len(b) : b[k] \in Digits \cup {"."}
        /\ \E k \in 1..Len(b) : b[k] \in Digits
        /\ \A j, k \in 1..Len(b) : (b[j] = "." /\ b[k] = ".") => j = k

\* The strings float() reads as an infinity: numbers to float(), with no
\* integer value.
IsInfinity(s) == Strip(s) = <<"i", "n", "f">>

\* C5, the numbers, the sentinels and the missing value: an integer-valued
\* year y (a number, or the string that writes it) with 0 <= y < 200 gives
\* y + 1911, one with y >= 200 gives y; both sentinels give 2025; a missing
\* value gives None.
C5_NumbersAndSentinels ==
    ypc # "call" =>
        /\ year_val.t \in {"int", "float"} =>
             /\ (0 <= year_val.v /\ year_val.v < 200) =>
                  year_result = IntVal(year_val.v + 1911)
             /\ year_val.v >= 200 => year_result = IntVal(year_val.v)
        /\ (year_val.t = "str" /\ year_val.s # <<>> /\ AllDigits(year_val.s)) =>
             LET y == DigitsToNat(year_val.s, 0)
             IN  year_result = IntVal(IF y < 200 THEN y + 1911 ELSE y)
        /\ year_val \in {StrVal(LATEST), StrVal(ZUIXIN)} => year_result = IntVal(2025)
        /\ year_val = NaN => year_result = None

\* C5, the strings that are no numeral and no sentinel.
NonNumeric(val) ==
    /\ val.t = "str"
    /\ ~IsNumeral(val.s)
    /\ Strip(val.s) \notin {LATEST, ZUIXIN}

\* C5 as stated: an integer-valued year y with 0 <= y < 200 gives y + 1911,
\* one with y >= 200 gives y; both sentinels give 2025; a missing value gives
\* None; a string that is no numeral and no sentinel gives None, and no error.
C5_NormalizeYear ==
    /\ C5_NumbersAndSentinels
    /\ (ypc # "call" /\ NonNumeric(year_val)) =>
           (year_result = None /\ ypc = "returned")

\* C5 without the strings float() reads as an infinity: every other string
\* that is no numeral and no sentinel gives None, and no error.
C5_ExceptInfinity ==
    /\ C5_NumbersAndSentinels
    /\ (ypc # "call" /\ NonNumeric(year_val) /\ ~IsInfinity(year_val.s)) =>
           (year_result = None /\ ypc = "returned")

\* C5: the string "inf" ended normalize_year with an OverflowError.
C5_Witness ==
    /\ ypc = "raised"
    /\ year_val = StrVal(<<"i", "n", "f">>)
    /\ year_result = Raise("OverflowError")

-----------------------------------------------------------------------------
(* C7 *)

HasWhitespace(s) == \E k \in 1..Len(s) : s[k] \in {" ", "\t", "\r", "\n"}

\* C7 as stated: normalize_date of normalize_date(d) is normalize_date(d),
\* for any date string d.
C7_Idempotent == npc = "twice" => twice = once

\* C7, what does hold: the second call changes nothing but whitespace at the
\* ends of the first result, so normalize_date(normalize_date(d)) ==
\* normalize_date(d) exactly when normalize_date(d) neither begins nor ends
\* with whitespace, as for every d that holds no whitespace and a missing d.
C7_IdempotentWithoutWhitespace ==
    npc = "twice" =>
        /\ date_val = NaN => (once = None /\ twice = None)
        /\ date_val.t = "str" =>
             /\ ~HasWhitespace(date_val.s) => twice = once
             /\ twice = StrVal(Strip(once.s))
             /\ Len(once.s) <= 8
             /\ \A k \in 1..Len(once.s) : once.s[k] # "-"

\* C7: a date was cut after 8 characters just behind a space, and the second
\* call took the space away.
C7_Witness ==
    /\ npc = "twice"
    /\ date_val = StrVal(<<"2", "2", "2", "2", "2", "2", "2", " ", "2">>)
    /\ once = StrVal(<<"2", "2", "2", "2", "2", "2", "2", " ">>)
    /\ twice = StrVal(<<"2", "2", "2", "2", "2", "2", "2">>)

-----------------------------------------------------------------------------
(* C8 *)

CountOf(counts, y) == IF y \in DOMAIN counts THEN counts[y] ELSE 0

\* C8: a row of each table with the same entity and with dates that differ
\* only by dashes have one composite key, which is a common key and unique
\* to neither side; the year 113 counts under 2024 whether it is the number
\* or the string. For A = [X, 2024-01-01, 113] and B = [X, 20240101, "113"]:
\* 1 common key, 0 unique to either side, count 1 for 2024 on both sides.
C8_DashedAndPlainMatch ==
    /\ kpc = "compared" =>
         /\ \A a \in 1..Len(pacs_df), b \in 1..Len(mol_df) :
              (/\ pacs_df[a].entity = mol_df[b].entity
               /\ Remove(pacs_df[a].date.s, "-") = Remove(mol_df[b].date.s, "-")) =>
                  \E key \in common_keys :
                      /\ key = pacs_df[a].entity \o <<"_">>
                                  \o Remove(pacs_df[a].date.s, "-")
                      /\ key = mol_df[b].entity \o <<"_">>
                                  \o Remove(mol_df[b].date.s, "-")
                      /\ key \notin pacs_only \cup mol_only
         /\ Cardinality(common_keys) + Cardinality(pacs_only)
              = Cardinality({<<pacs_df[a].entity, Remove(pacs_df[a].date.s, "-")>> :
                                a \in 1..Len(pacs_df)})
         /\ (/\ pacs_df = <<[entity |-> <<"X">>, date |-> StrVal(DASHED),
                             year |-> IntVal(113)]>>
             /\ mol_df = <<[entity |-> <<"X">>, date |-> StrVal(PLAIN),
                            year |-> StrVal(Y113)]>>) =>
              /\ Cardinality(common_keys) = 1
              /\ pacs_only = {}
              /\ mol_only = {}
    /\ kpc \in {"counted", "compared"} =>
         /\ CountOf(pacs_counts, 2024) =
              Cardinality({a \in 1..Len(pacs_df) :
                              pacs_df[a].year \in {IntVal(113), StrVal(Y113)}})
         /\ CountOf(mol_counts, 2024) =
              Cardinality({b \in 1..Len(mol_df) :
                              mol_df[b].year \in {IntVal(113), StrVal(Y113)}})

\* The scenario of the claim, compared.
C8_Witness ==
    /\ kpc = "compared"
    /\ pacs_df = <<[entity |-> <<"X">>, date |-> StrVal(DASHED), year |-> IntVal(113)]>>
    /\ mol_df = <<[entity |-> <<"X">>, date |-> StrVal(PLAIN), year |-> StrVal(Y113)]>>
    /\ Cardinality(common_keys) = 1
    /\ CountOf(pacs_counts, 2024) = 1
    /\ CountOf(mol_counts, 2024) = 1

-----------------------------------------------------------------------------
(* C11 *)

\* C11, the scripts that tag: every row of the labor-violations CSV has the
\* city of its download in 來源縣市, and every record of the MOL CSV has a
\* year (the one it came with, or else the year of its resource).
C11_LaborAndMolTagged ==
    /\ \A row \in labor_csv : row.source_city = row.city
    /\ \A t \in 1..Len(all_dfs) : all_dfs[t].source_city = all_dfs[t].city
    /\ \A k \in 1..Len(merged) : merged[k].year # ""
    /\ \A k \in 1..Len(mol_csv) : mol_csv[k].year # ""

\* C11 as stated: every record of a merged table that is written to the
\* processed CSV carries a provenance tag (the source year for the windows
\* of fetch_occupational_disasters and the resources of
\* fetch_mol_webservices, the source region for fetch_labor_violations).
C11_EveryPersistedRecordTagged ==
    /\ C11_LaborAndMolTagged
    /\ \A k \in 1..Len(dis_csv) : dis_csv[k].year # "none"

\* C11: fetch_occupational_disasters wrote records of two windows, those of
\* one window with no year and no other mark of the window.
C11_Witness ==
    /\ dpc = "written"
    /\ \E j, k \in 1..Len(dis_csv) :
         /\ dis_csv[j].window # dis_csv[k].window
         /\ dis_csv[j].year = "srv"
         /\ dis_csv[k].year = "none"

-----------------------------------------------------------------------------
(* C12 *)

\* The records of window w, of resource r, in a sequence of records.
OfWindow(rs, w) == SelectSeq(rs, LAMBDA rec : rec.window = w)
OfResource(rs, r) == SelectSeq(rs, LAMBDA rec : rec.resource = r)

\* C12 for fetch_occupational_disasters, where a request is a date window:
\* the records of a window are in the aggregate only when the snapshot of
\* that window holds them; a window that gave no record has no snapshot and
\* no record in the aggregate.
DisSnapshotBeforeMerge ==
    /\ \A w \in DOMAIN raw : raw[w] # <<>> /\ OfWindow(raw[w], w) = raw[w]
    /\ \A k \in 1..Len(d_requests) :
         LET w == d_requests[k].window
         IN  /\ OfWindow(d_all_data, w) # <<>> =>
                  (w \in DOMAIN raw /\ raw[w] = OfWindow(d_all_data, w))
             /\ d_requests[k].n = 0 =>
                  (w \notin DOMAIN raw /\ OfWindow(d_all_data, w) = <<>>)
             /\ (d_requests[k].n > 0 /\ w < window) =>
                  (w \in DOMAIN raw /\ Len(raw[w]) = d_requests[k].n
                     /\ OfWindow(d_all_data, w) = raw[w])

\* C12 as stated: every request that returns records, a page request of
\* fetch_all_data included, has a snapshot of its own, holding its records,
\* by the time the records are in an in-memory aggregate; a request that
\* returns none writes no snapshot and adds nothing.
C12_EveryBatchOwnSnapshot ==
    /\ DisSnapshotBeforeMerge
    /\ \A k \in 1..Len(requests) :
         requests[k].n > 0 =>
             /\ requests[k].resource \in DOMAIN raw_mol
             /\ Len(raw_mol[requests[k].resource]) = requests[k].n
    /\ Len(merged) + Len(all_data) = SumN(requests)

\* C12 as amended: in fetch_occupational_disasters every window's non-empty
\* answer is written to its own snapshot, keyed by the window's dates, before
\* its records are appended to the aggregate. In fetch_mol_webservices the
\* pages of one resource are first put together in memory by fetch_all_data,
\* with no snapshot per page; main then writes all the records of the
\* resource, untagged, to one snapshot keyed by the resource's year, before
\* it tags them and appends them to its aggregate. A window or resource that
\* gave no record writes no snapshot and leaves the aggregate unchanged.
C12_SnapshotPerWindowAndResource ==
    /\ DisSnapshotBeforeMerge
    /\ \A r \in DOMAIN raw_mol :
         /\ raw_mol[r] # <<>>
         /\ Len(raw_mol[r]) = SumN(Current(requests, r))
         /\ \A j \in 1..Len(raw_mol[r]) :
              /\ raw_mol[r][j].resource = r
              /\ raw_mol[r][j].pos = j
              /\ raw_mol[r][j].year # "tag"
    /\ \A r \in 1..NumResources :
         /\ OfResource(merged, r) # <<>> =>
              /\ r \in DOMAIN raw_mol
              /\ Len(OfResource(merged, r)) = Len(raw_mol[r])
              /\ \A j \in 1..Len(raw_mol[r]) :
                   OfResource(merged, r)[j] = Tagged(raw_mol[r][j], r)
         /\ (r < resource /\ SumN(Current(requests, r)) = 0) =>
              (r \notin DOMAIN raw_mol /\ OfResource(merged, r) = <<>>)
         /\ (r < resource /\ SumN(Current(requests, r)) > 0) =>
              (r \in DOMAIN raw_mol /\ OfResource(merged, r) # <<>>)
         /\ (r = resource /\ mpc = "saved") =>
              (r \in DOMAIN raw_mol /\ raw_mol[r] = all_data)

\* C12: the snapshot of a resource of two pages is written, and its records
\* are not merged yet.
C12_Witness ==
    /\ mpc = "saved"
    /\ Len(Current(requests, resource)) = 2
    /\ Len(raw_mol[resource]) > limit
    /\ OfResource(merged, resource) = <<>>

-----------------------------------------------------------------------------
(* C13 *)

\* C13, the requests made in a loop: a failed download of a city is caught
\* and counts as no data for the city (no ZIP saved, no table merged), and
\* the loop goes on with the next city; a failed window or page of the JSON
\* fetchers leaves no record and ends neither script.
C13_FailuresInLoopsAreCaught ==
    /\ \A k \in 1..Len(l_requests) :
         (l_requests[k].failed /\ l_requests[k].unit > 0) =>
             /\ l_requests[k].unit \notin zips
             /\ \A t \in 1..Len(all_dfs) : all_dfs[t].city # l_requests[k].unit
             /\ k < Len(l_requests) => l_requests[k + 1].unit = l_requests[k].unit + 1
             /\ k = Len(l_requests) =>
                  (lpc # "raised" /\ (lpc = "city" => city = l_requests[k].unit + 1))
    /\ \A k \in 1..Len(d_requests) : d_requests[k].failed => d_requests[k].n = 0
    /\ \A k \in 1..Len(requests) : requests[k].failed => requests[k].n = 0
    /\ d_exc # "RequestException"
    /\ mpc # "raised"

\* C13 as stated: in every script a transport error on any request, the
\* token request of fetch_labor_violations and the download of
\* fetch_osha_violations included, is caught and counts as an empty result,
\* and the script goes on: no script ends with the error uncaught.
C13_NoTransportErrorEscapes ==
    /\ C13_FailuresInLoopsAreCaught
    /\ l_exc # "RequestException"
    /\ o_exc # "RequestException"
    /\ \A k \in 1..Len(l_requests) : l_requests[k].failed => lpc # "raised"
    /\ \A k \in 1..Len(o_requests) : o_requests[k].failed => opc # "raised"

\* C13: the token request of fetch_labor_violations failed, and the script
\* ended with the exception before it asked for any city.
C13_Witness ==
    /\ lpc = "raised"
    /\ l_exc = "RequestException"
    /\ l_requests = <<[unit |-> 0, failed |-> TRUE]>>
    /\ zips = {}
    /\ labor_csv = {}

-----------------------------------------------------------------------------
(* C14 *)

\* The fetch_all_data call for the resource under way has returned.
Returned == mpc \in {"return", "saved"}

\* C14, what holds at every moment: a page with fewer than limit records (an
\* empty or failed one included) is the last request of its call; against a
\* server that faithfully serves N records the call, once over, has made
\* floor(N / limit) + 1 requests, the last of them empty when N is a multiple
\* of limit, and returns the N records in order.
PagingIsExact ==
    /\ \A k \in 1..Len(requests) :
         requests[k].n < limit =>
             /\ k < Len(requests) => requests[k + 1].resource # requests[k].resource
             /\ (k = Len(requests) /\ resource = requests[k].resource) => Returned
    /\ (server.faithful /\ Returned) =>
         LET R == Current(requests, resource)
         IN  /\ Len(R) = (server.n \div limit) + 1
             /\ \A k \in 1..Len(R) : ~R[k].failed
             /\ server.n % limit = 0 => R[Len(R)].n = 0
             /\ Len(all_data) = server.n
             /\ \A j \in 1..Len(all_data) :
                  all_data[j].resource = resource /\ all_data[j].pos = j

\* C14: fetch_all_data returns at the first page with fewer than limit
\* records; against a server that faithfully serves N records it does return,
\* after exactly floor(N / limit) + 1 requests (one of them an extra, empty
\* one when N is a multiple of limit), with all N records.
C14_FaithfulPagingTerminates ==
    /\ []PagingIsExact
    /\ \A r \in 1..NumResources :
         (resource = r /\ mpc = "fetch" /\ server.faithful)
             ~> (resource = r /\ Returned /\ Len(all_data) = server.n)

\* C14: a dataset of twice limit records was read in three requests, the
\* third of them empty.
C14_Witness ==
    /\ server.faithful
    /\ server.n = 2 * limit
    /\ mpc = "return"
    /\ Len(Current(requests, resource)) = 3
    /\ requests[Len(requests)].n = 0
    /\ Len(all_data) = 2 * limit

=============================================================================
